---- MODULE Spec2Model ----
(***************************************************************************)
(* Context-detection pipeline of CreativEase (electron/ContextHelper.ts,   *)
(* electron/PermissionsHelper.ts, electron/ipcHandlers.ts).                *)
(*                                                                         *)
(* Strings that the program inspects character by character (OCR text,     *)
(* catalogue keywords, text_content, screenshot paths) are sequences of    *)
(* one-character strings; names that are only compared for equality        *)
(* (software names, platform, program positions) are TLA+ strings.         *)
(***************************************************************************)
EXTENDS Integers, Sequences, FiniteSets, TLC

----------------------------------------------------------------------------
(* Bounds of the model.                                                    *)

\* Largest number of fragments concatenated into one classifier input.
MaxFrags == 2

\* Number of captureAndAnalyzeContext invocations (capture-context requests).
MaxRuns == 2

\* Number of cleanup() invocations.
MaxCleanups == 2

\* Number of permission queries made directly or through the IPC handler.
MaxQueries == 2

\* Number of CreativEase Coach shortcut triggers.
MaxTriggers == 3

\* Characters by which the longest recognized text exceeds the limit of
\* text_content.
LongTextExcess == 7

\* text.slice(0, 500): the limit of text_content.
TextContentLimit == 500

----------------------------------------------------------------------------
(* Static reference data: the catalogues declared inside ContextHelper.    *)

softwarePatterns ==
  <<
    [name |-> "Adobe Premiere Pro", patterns |->
      << <<"p","r","e","m","i","e","r","e">>,
         <<"t","i","m","e","l","i","n","e">>,
         <<"l","u","m","e","t","r","i">>,
         <<"e","s","s","e","n","t","i","a","l"," ","g","r","a","p","h","i","c","s">>,
         <<"s","e","q","u","e","n","c","e">> >>],
    [name |-> "DaVinci Resolve", patterns |->
      << <<"d","a","v","i","n","c","i">>,
         <<"r","e","s","o","l","v","e">>,
         <<"c","o","l","o","r">>,
         <<"f","u","s","i","o","n">>,
         <<"f","a","i","r","l","i","g","h","t">>,
         <<"d","e","l","i","v","e","r">> >>],
    [name |-> "Adobe Photoshop", patterns |->
      << <<"p","h","o","t","o","s","h","o","p">>,
         <<"l","a","y","e","r","s">>,
         <<"b","r","u","s","h">>,
         <<"f","i","l","t","e","r">>,
         <<"a","d","j","u","s","t","m","e","n","t">> >>],
    [name |-> "Adobe After Effects", patterns |->
      << <<"a","f","t","e","r"," ","e","f","f","e","c","t","s">>,
         <<"c","o","m","p","o","s","i","t","i","o","n">>,
         <<"t","i","m","e","l","i","n","e">>,
         <<"e","f","f","e","c","t","s">>,
         <<"p","r","e","c","o","m","p">> >>],
    [name |-> "Adobe Illustrator", patterns |->
      << <<"i","l","l","u","s","t","r","a","t","o","r">>,
         <<"a","r","t","b","o","a","r","d">>,
         <<"p","e","n"," ","t","o","o","l">>,
         <<"p","a","t","h","f","i","n","d","e","r">>,
         <<"s","t","r","o","k","e">> >>],
    [name |-> "Final Cut Pro", patterns |->
      << <<"f","i","n","a","l"," ","c","u","t">>,
         <<"e","v","e","n","t">>,
         <<"p","r","o","j","e","c","t">>,
         <<"b","l","a","d","e">>,
         <<"m","a","g","n","e","t","i","c"," ","t","i","m","e","l","i","n","e">> >>],
    [name |-> "Adobe Lightroom", patterns |->
      << <<"l","i","g","h","t","r","o","o","m">>,
         <<"d","e","v","e","l","o","p">>,
         <<"l","i","b","r","a","r","y">>,
         <<"h","i","s","t","o","g","r","a","m">>,
         <<"t","o","n","e"," ","c","u","r","v","e">> >>],
    [name |-> "Logic Pro", patterns |->
      << <<"l","o","g","i","c"," ","p","r","o">>,
         <<"t","r","a","c","k"," ","a","r","e","a">>,
         <<"m","i","x","e","r">>,
         <<"l","i","b","r","a","r","y">>,
         <<"s","c","o","r","e"," ","e","d","i","t","o","r">> >>]
  >>

uiPatterns ==
  <<
    <<"t","i","m","e","l","i","n","e">>,
    <<"i","n","s","p","e","c","t","o","r">>,
    <<"b","r","o","w","s","e","r">>,
    <<"v","i","e","w","e","r">>,
    <<"c","a","n","v","a","s">>,
    <<"t","o","o","l","b","a","r">>,
    <<"p","a","n","e","l">>,
    <<"w","i","n","d","o","w">>,
    <<"p","r","o","g","r","a","m"," ","m","o","n","i","t","o","r">>,
    <<"s","o","u","r","c","e"," ","m","o","n","i","t","o","r">>,
    <<"p","r","o","j","e","c","t"," ","p","a","n","e","l">>,
    <<"e","f","f","e","c","t"," ","c","o","n","t","r","o","l","s">>,
    <<"l","u","m","e","t","r","i"," ","c","o","l","o","r">>,
    <<"e","s","s","e","n","t","i","a","l"," ","g","r","a","p","h","i","c","s">>,
    <<"e","s","s","e","n","t","i","a","l"," ","s","o","u","n","d">>,
    <<"s","e","q","u","e","n","c","e">>,
    <<"m","e","d","i","a"," ","b","r","o","w","s","e","r">>,
    <<"m","e","d","i","a"," ","p","o","o","l">>,
    <<"t","i","m","e","l","i","n","e"," ","v","i","e","w","e","r">>,
    <<"i","n","s","p","e","c","t","o","r"," ","p","a","n","e","l">>,
    <<"c","o","l","o","r"," ","w","h","e","e","l","s">>,
    <<"n","o","d","e","s">>,
    <<"g","a","l","l","e","r","y">>,
    <<"s","c","o","p","e","s">>,
    <<"m","i","x","e","r">>,
    <<"f","a","i","r","l","i","g","h","t">>,
    <<"f","u","s","i","o","n"," ","p","a","g","e">>,
    <<"e","d","i","t"," ","p","a","g","e">>,
    <<"c","o","l","o","r"," ","p","a","g","e">>,
    <<"l","a","y","e","r","s"," ","p","a","n","e","l">>,
    <<"p","r","o","p","e","r","t","i","e","s"," ","p","a","n","e","l">>,
    <<"h","i","s","t","o","r","y"," ","p","a","n","e","l">>,
    <<"b","r","u","s","h"," ","p","a","n","e","l">>,
    <<"c","o","l","o","r"," ","p","a","n","e","l">>,
    <<"c","h","a","n","n","e","l","s">>,
    <<"p","a","t","h","s">>,
    <<"a","d","j","u","s","t","m","e","n","t"," ","l","a","y","e","r","s">>,
    <<"f","i","l","t","e","r"," ","g","a","l","l","e","r","y">>,
    <<"c","o","m","p","o","s","i","t","i","o","n"," ","p","a","n","e","l">>,
    <<"p","r","o","j","e","c","t"," ","p","a","n","e","l">>,
    <<"t","i","m","e","l","i","n","e"," ","p","a","n","e","l">>,
    <<"e","f","f","e","c","t"," ","c","o","n","t","r","o","l","s"," ","p","a","n","e","l">>,
    <<"c","h","a","r","a","c","t","e","r"," ","p","a","n","e","l">>,
    <<"p","a","r","a","g","r","a","p","h"," ","p","a","n","e","l">>,
    <<"a","l","i","g","n"," ","p","a","n","e","l">>,
    <<"t","r","a","c","k","e","r"," ","p","a","n","e","l">>,
    <<"p","l","a","y">>,
    <<"p","a","u","s","e">>,
    <<"s","t","o","p">>,
    <<"r","e","c","o","r","d">>,
    <<"z","o","o","m">>,
    <<"s","c","a","l","e">>,
    <<"r","o","t","a","t","e">>,
    <<"p","o","s","i","t","i","o","n">>,
    <<"o","p","a","c","i","t","y">>,
    <<"b","l","e","n","d"," ","m","o","d","e">>,
    <<"m","a","s","k">>,
    <<"k","e","y","f","r","a","m","e">>,
    <<"t","r","a","n","s","i","t","i","o","n">>,
    <<"e","f","f","e","c","t">>
  >>

panelPatterns ==
  <<
    <<"p","r","o","j","e","c","t"," ","p","a","n","e","l">>,
    <<"t","i","m","e","l","i","n","e"," ","p","a","n","e","l">>,
    <<"p","r","o","g","r","a","m"," ","m","o","n","i","t","o","r">>,
    <<"s","o","u","r","c","e"," ","m","o","n","i","t","o","r">>,
    <<"e","f","f","e","c","t"," ","c","o","n","t","r","o","l","s">>,
    <<"l","u","m","e","t","r","i"," ","c","o","l","o","r">>,
    <<"e","s","s","e","n","t","i","a","l"," ","g","r","a","p","h","i","c","s">>,
    <<"e","s","s","e","n","t","i","a","l"," ","s","o","u","n","d">>,
    <<"m","e","d","i","a"," ","p","o","o","l">>,
    <<"i","n","s","p","e","c","t","o","r">>,
    <<"c","o","l","o","r"," ","w","h","e","e","l","s">>,
    <<"s","c","o","p","e","s">>,
    <<"m","i","x","e","r">>,
    <<"l","a","y","e","r","s"," ","p","a","n","e","l">>,
    <<"p","r","o","p","e","r","t","i","e","s"," ","p","a","n","e","l">>,
    <<"h","i","s","t","o","r","y"," ","p","a","n","e","l">>,
    <<"t","o","o","l","s"," ","p","a","n","e","l">>,
    <<"c","o","l","o","r"," ","p","a","n","e","l">>,
    <<"s","w","a","t","c","h","e","s"," ","p","a","n","e","l">>,
    <<"b","r","u","s","h"," ","p","a","n","e","l">>,
    <<"c","h","a","r","a","c","t","e","r"," ","p","a","n","e","l">>
  >>

PermissionMessage ==
  <<"S","c","r","e","e","n"," ","r","e","c","o","r","d","i","n","g"," ","p","e","r","m","i","s","s","i","o","n"," ","n","e","e","d","e","d"," ","f","o","r"," ","c","o","n","t","e","x","t"," ","d","e","t","e","c","t","i","o","n","."," ","P","l","e","a","s","e"," ","e","n","a","b","l","e"," ","i","n"," ","S","y","s","t","e","m"," ","P","r","e","f","e","r","e","n","c","e","s"," ","->"," ","P","r","i","v","a","c","y"," ","&"," ","S","e","c","u","r","i","t","y"," ","->"," ","S","c","r","e","e","n"," ","R","e","c","o","r","d","i","n","g",".">>

----------------------------------------------------------------------------
(* String primitives used by the classifier.                               *)

UpperCase ==
  <<"A","B","C","D","E","F","G","H","I","J","K","L","M","N","O","P","Q","R","S","T","U","V","W","X","Y","Z">>

LowerCase ==
  <<"a","b","c","d","e","f","g","h","i","j","k","l","m","n","o","p","q","r","s","t","u","v","w","x","y","z">>

\* One character of String.prototype.toLowerCase.
lowerChar(c) ==
  IF \E i \in 1..Len(UpperCase) : UpperCase[i] = c
    THEN LowerCase[CHOOSE i \in 1..Len(UpperCase) : UpperCase[i] = c]
    ELSE c

\* Mutation: the text is used as it is, not lower-cased.
textAsIs(text) == text

\* text.toLowerCase()
toLowerCase(text) == [i \in 1..Len(text) |-> lowerChar(text[i])]

\* Mutation: only the start of the text is compared (startsWith).
includesAtStart(text, pattern) ==
  /\ Len(pattern) <= Len(text)
  /\ \A j \in 1..Len(pattern) : text[j] = pattern[j]

\* lowerText.includes(pattern): scan every start position.
includes(text, pattern) ==
  \E i \in 0..(Len(text) - Len(pattern)) :
    \A j \in 1..Len(pattern) : text[i + j] = pattern[j]

\* Mutation: the text is returned whole.
sliceNothing(text, n) == text

\* text.slice(0, n)
slice0(text, n) == SubSeq(text, 1, IF Len(text) < n THEN Len(text) ELSE n)

----------------------------------------------------------------------------
(* Numbers: a confidence is the quotient of two small naturals, kept as a  *)
(* fraction in lowest terms so that equal numbers are equal values.        *)

\* Greatest common divisor of m >= 0 and n > 0.
GCD(m, n) ==
  CHOOSE d \in 1..n :
    /\ m % d = 0 /\ n % d = 0
    /\ \A e \in (d + 1)..n : ~(m % e = 0 /\ n % e = 0)

\* matches / sw.patterns.length
Quotient(m, n) ==
  LET g == GCD(m, n) IN [num |-> m \div g, den |-> n \div g]

Zero == [num |-> 0, den |-> 1]

\* a > b on numbers
GreaterThan(a, b) == a.num * b.den > b.num * a.den

----------------------------------------------------------------------------
(* Signal classifier: detectCreativeSoftware, extractUIElements,           *)
(* extractPanels.                                                          *)

\* let matches = 0; for (const pattern of sw.patterns) if (includes) matches++
countMatches(lowerText, patterns) ==
  LET matches[k \in 0..Len(patterns)] ==
        IF k = 0 THEN 0
        ELSE matches[k - 1] + (IF includes(lowerText, patterns[k]) THEN 1 ELSE 0)
  IN matches[Len(patterns)]

\* Mutation: the match count is not divided by the number of keywords.
confidenceUndivided(matches, total) == [num |-> matches, den |-> 1]

\* const confidence = matches / sw.patterns.length
confidenceOf(matches, total) == Quotient(matches, total)

\* Mutation: the comparison admits equality (>= for >).
replacesBestOrEqual(confidence, bestMatch) ==
  ~GreaterThan(bestMatch.confidence, confidence)

\* if (confidence > bestMatch.confidence)
replacesBest(confidence, bestMatch) == GreaterThan(confidence, bestMatch.confidence)

\* Mutation: the initial best match carries no software name.
initialBestMatchUnnamed == [software |-> "", confidence |-> Zero]

\* let bestMatch = { software: 'Unknown', confidence: 0 }
initialBestMatch == [software |-> "Unknown", confidence |-> Zero]

\* bestMatch after the k-th iteration of: for (const sw of softwarePatterns)
updateBest(lowerText, sw, bestMatch) ==
  LET matches == countMatches(lowerText, sw.patterns)
      confidence == confidenceOf(matches, Len(sw.patterns))
  IN IF replacesBest(confidence, bestMatch)
       THEN [software |-> sw.name, confidence |-> confidence]
       ELSE bestMatch

detectCreativeSoftware(text) ==
  LET lowerText == toLowerCase(text)
      bestMatch[k \in 0..Len(softwarePatterns)] ==
        IF k = 0 THEN initialBestMatch
        ELSE updateBest(lowerText, softwarePatterns[k], bestMatch[k - 1])
  IN bestMatch[Len(softwarePatterns)]

\* for (const p of catalogue) if (lowerText.includes(p)) found.push(p)
scanCatalogue(lowerText, catalogue) ==
  LET found[k \in 0..Len(catalogue)] ==
        IF k = 0 THEN <<>>
        ELSE LET before == found[k - 1]
             IN IF includes(lowerText, catalogue[k])
                  THEN Append(before, catalogue[k])
                  ELSE before
  IN found[Len(catalogue)]

\* Mutation: the found list is returned without removing duplicates.
foundAsIs(found) == found

\* [...new Set(found)]: keeps the first occurrence of every value, in order.
uniqueInOrder(found) ==
  LET kept[k \in 0..Len(found)] ==
        IF k = 0 THEN <<>>
        ELSE LET before == kept[k - 1]
             IN IF \E i \in 1..Len(before) : before[i] = found[k]
                  THEN before
                  ELSE Append(before, found[k])
  IN kept[Len(found)]

extractUIElements(text) == uniqueInOrder(scanCatalogue(toLowerCase(text), uiPatterns))

\* Mutation: the text is scanned without lower-casing it first.
extractPanelsCaseSensitive(text) == scanCatalogue(text, panelPatterns)

extractPanels(text) == scanCatalogue(toLowerCase(text), panelPatterns)

----------------------------------------------------------------------------
(* Inputs of the classifier: texts assembled from a few fragments.  The    *)
(* fragments mix cases, share keywords between signatures and catalogues,  *)
(* and form further keywords across fragment borders ("lumetri " + "color").*)

Fragments ==
  { <<"t","i","m","e","l","i","n","e">>,
    <<"m","i","x","e","r">>,
    <<"p","r","o","j","e","c","t"," ","p","a","n","e","l">>,
    <<"L","A","Y","E","R","S">>,
    <<"B","r","u","s","h">>,
    <<"c","o","l","o","r">>,
    <<"l","u","m","e","t","r","i"," ">>,
    <<"I","n","s","p","e","c","t","o","r">>,
    <<"x","y","z">> }

\* Texts of at most n fragments.
TextsOf[n \in 0..MaxFrags] ==
  IF n = 0 THEN { <<>> }
  ELSE TextsOf[n - 1] \cup { t \o f : t \in TextsOf[n - 1], f \in Fragments }

\* A screen of Adobe Premiere Pro: all its keywords, in mixed case.
PremiereScreen ==
  <<"P","r","e","m","i","e","r","e"," ","t","i","m","e","l","i","n","e"," ","L","u","m","e","t","r","i"," ","C","o","l","o","r"," ","e","s","s","e","n","t","i","a","l"," ","g","r","a","p","h","i","c","s"," ","S","E","Q","U","E","N","C","E">>

\* Texts that complete the keywords of a later signature once they follow
\* or precede PremiereScreen ("timeline" is shared with After Effects).
OtherScreens ==
  { <<" ","A","f","t","e","r"," ","E","f","f","e","c","t","s"," ","c","o","m","p","o","s","i","t","i","o","n"," ","p","r","e","c","o","m","p"," ">>,
    <<" ","d","a","v","i","n","c","i"," ","r","e","s","o","l","v","e"," ","c","o","l","o","r"," ","f","u","s","i","o","n"," ","f","a","i","r","l","i","g","h","t"," ","d","e","l","i","v","e","r"," ">> }

\* The letter dotless i, written by its code point: a lower-case letter
\* outside a-z, which toLowerCase leaves alone.
DotlessI == "U+0131"

\* "timeline" written with the dotless i.
DotlessText == <<"t", DotlessI, "m", "e", "l", DotlessI, "n", "e">>

\* PremiereScreen alone and next to every fragment and every other screen,
\* and the text with a letter outside A-Z.
ScenarioTexts ==
  {PremiereScreen, DotlessText}
    \cup {PremiereScreen \o f : f \in Fragments \cup OtherScreens}
    \cup {f \o PremiereScreen : f \in Fragments \cup OtherScreens}

TextInputs == TextsOf[MaxFrags] \cup ScenarioTexts


\* s repeated until it has n characters.
repeated(s, n) == [i \in 1..n |-> s[((i - 1) % Len(s)) + 1]]

\* A screen full of text: longer than the text_content limit, mixed case.
LongText ==
  repeated(<<"L","a","y","e","r","s"," ","P","a","n","e","l"," ","x","y","z"," ">>,
           TextContentLimit + LongTextExcess)

\* Texts the OCR engine may recognize on the screen during a pipeline run:
\* a blank screen, a keyword shared by two signatures, mixed-case text
\* with two keywords of one signature, and a text longer than text_content.
OcrTexts ==
  { <<>>,
    <<"t","i","m","e","l","i","n","e">>,
    <<"L","A","Y","E","R","S"," ","B","r","u","s","h">>,
    LongText }

Runs == 1..MaxRuns

Cleanups == 1..MaxCleanups

Platforms == {"darwin", "win32"}

Triggers == 1..MaxTriggers

----------------------------------------------------------------------------
VARIABLES
  inputText,     \* classifier under direct call: the input text
  returned,      \* classifier functions that have returned for this text
  detection,     \* value returned by detectCreativeSoftware(inputText)
  panels,        \* value returned by extractPanels(inputText)
  uiElements,    \* value returned by extractUIElements(inputText)
  platform,      \* process.platform
  ocrWorker,     \* ContextHelper.ocrWorker: 0 is null, else an engine number
  engines,       \* every engine createWorker() has produced, by number
  runs,          \* the captureAndAnalyzeContext invocations
  lastReturn,    \* the invocation that resolved most recently, as it ended
  cleanups,      \* the cleanup() invocations
  permissionLog, \* permission queries made directly or by IPC, with answers
  settings,      \* the openScreenRecordingSettings() invocation
  isCoachRecording,     \* QueueCommands state: isCoachRecording
  isProcessingGuidance, \* QueueCommands state: isProcessingGuidance
  coachGuidance,        \* QueueCommands state: coachGuidance (by kind)
  transcribedText,      \* QueueCommands state: transcribedText (by kind)
  shortcutListener,     \* the callback given to onStartCreativeCoachRecording
  coachRecordings       \* the startCoachRecording() calls, one per trigger

classifierVars == <<inputText, returned, detection, panels, uiElements>>

pipelineVars == <<platform, ocrWorker, engines, runs, lastReturn, cleanups>>

permissionVars == <<permissionLog, settings>>

coachVars == <<isCoachRecording, isProcessingGuidance, coachGuidance,
               transcribedText, shortcutListener, coachRecordings>>

vars == <<inputText, returned, detection, panels, uiElements,
          platform, ocrWorker, engines, runs, lastReturn, cleanups,
          permissionLog, settings,
          isCoachRecording, isProcessingGuidance, coachGuidance,
          transcribedText, shortcutListener, coachRecordings>>

----------------------------------------------------------------------------
(* ContextData records.                                                    *)

\* Result slot of a run that has not returned yet.
PendingResult ==
  [software |-> "", confidence |-> Zero, panels |-> <<>>,
   text_content |-> <<>>, screenshot_path |-> <<>>, ui_elements |-> <<>>]

\* The record returned when permission is missing on macOS.
PermissionRequiredResult ==
  [software |-> "Permission Required", confidence |-> Zero, panels |-> <<>>,
   text_content |-> PermissionMessage, screenshot_path |-> <<>>,
   ui_elements |-> <<>>]

\* The record returned by the catch block.
FallbackResult ==
  [software |-> "Unknown", confidence |-> Zero, panels |-> <<>>,
   text_content |-> <<>>, screenshot_path |-> <<>>, ui_elements |-> <<>>]

\* The three classifier calls on each recognizable text (evaluated once).
classifications ==
  { [text |-> ocrText,
     softwareDetection |-> detectCreativeSoftware(ocrText),
     panels |-> extractPanels(ocrText),
     uiElements |-> extractUIElements(ocrText)] : ocrText \in OcrTexts }

\* Mutation: the classifier keeps state between calls; once a second engine
\* is stored it answers for the text it saw first.
classifiedByEngine(ocrText) ==
  CHOOSE c \in classifications :
    c.text = (IF ocrWorker > 1 THEN <<>> ELSE ocrText)

classified(ocrText) == CHOOSE c \in classifications : c.text = ocrText

\* Classification of the recognized text and assembly of the record.
analyze(ocrText, screenshotPath) ==
  [software |-> classified(ocrText).softwareDetection.software,
   confidence |-> classified(ocrText).softwareDetection.confidence,
   panels |-> classified(ocrText).panels,
   text_content |-> slice0(ocrText, TextContentLimit),
   screenshot_path |-> screenshotPath,
   ui_elements |-> classified(ocrText).uiElements]

\* Path of the image file the Screen Capturer writes for a run.
DigitChar == <<"1","2","3","4","5","6","7","8","9">>

screenshotPathOf(r) == <<"s","h","o","t", DigitChar[r]>>

----------------------------------------------------------------------------
(* State of one invocation and of one engine.                              *)

IdleRun ==
  [pc |-> "idle",            \* the await the run is suspended at
   hasPermission |-> "unset",\* value of hasPermission once the flow returned
   probeFile |-> "none",     \* what became of /tmp/permission-test.png
   screenshotPath |-> <<>>,  \* const screenshotPath
   recognizedPath |-> <<>>,  \* the argument of recognize()
   text |-> <<>>,            \* const text, as recognize() resolved it
   target |-> 0,             \* engine whose call the run is awaiting
   calls |-> <<>>,           \* external calls the run has made, in order
   failure |-> "none",       \* the call that threw in this run
   result |-> PendingResult] \* the ContextData the invocation resolved to

\* An invocation that has resolved; what it resolved to is in lastReturn.
DoneRun == [IdleRun EXCEPT !.pc = "done"]

\* No invocation has resolved yet.  (earlier: the invocation that resolved
\* before the most recent one, as it ended.)
NoReturn == [run |-> 0, ended |-> IdleRun, earlier |-> IdleRun]

IdleCleanup == [pc |-> "idle", target |-> 0]

NewEngine ==
  [loaded |-> FALSE,         \* loadLanguage('eng') completed
   initialized |-> FALSE,    \* initialize('eng') completed
   recognizing |-> 0,        \* recognize() calls in flight
   terminateCalls |-> 0,     \* terminate() calls made
   terminated |-> FALSE]     \* a terminate() call completed

InitPipeline ==
  /\ platform \in Platforms
  /\ ocrWorker = 0
  /\ engines = <<>>
  /\ runs = [r \in Runs |-> IdleRun]
  /\ lastReturn = NoReturn
  /\ cleanups = [c \in Cleanups |-> IdleCleanup]

NoDirectCall ==
  /\ inputText = <<>>
  /\ returned = {}
  /\ detection = initialBestMatch
  /\ panels = <<>>
  /\ uiElements = <<>>

IdleSettings == [pc |-> "idle", calls |-> <<>>]

NoPermissionCall ==
  /\ permissionLog = <<>>
  /\ settings = IdleSettings

\* One startCoachRecording() call that has not been made yet.
IdleRecording ==
  [pc |-> "idle",        \* where the call and its callbacks stand
   recorder |-> "none"]  \* MediaRecorder.state of the recorder it created

\* QueueCommands before its first render is committed: the initial values
\* of useState, no listener registered.
NoCoachRecording ==
  /\ isCoachRecording = FALSE
  /\ isProcessingGuidance = FALSE
  /\ coachGuidance = "null"
  /\ transcribedText = "empty"
  /\ shortcutListener = [registered |-> FALSE, isCoachRecording |-> FALSE]
  /\ coachRecordings = [k \in Triggers |-> IdleRecording]

Init == NoDirectCall /\ NoPermissionCall /\ InitPipeline /\ NoCoachRecording

----------------------------------------------------------------------------
(* PermissionsHelper.                                                      *)

\* What systemPreferences.getMediaAccessStatus('screen') may do at a query:
\* the user can change the grant in System Preferences at any time.
AccessStatuses == {"granted", "denied", "not-determined", "throws"}

\* Mutation: the platform is queried whatever process.platform is.
checkEveryPlatform(status) ==
  IF status = "throws" THEN FALSE ELSE status = "granted"

\* Mutation: a failed query is taken for a grant.
checkFailsOpen(status) ==
  IF platform # "darwin" THEN TRUE
  ELSE status \in {"granted", "throws"}

\* checkScreenCapturePermission()
checkScreenCapturePermission(status) ==
  IF platform # "darwin" THEN TRUE
  ELSE IF status = "throws" THEN FALSE
  ELSE status = "granted"

\* Calls checkScreenCapturePermission makes.
checkCalls == IF platform # "darwin" THEN <<>> ELSE <<"getMediaAccessStatus">>

\* if (!hasPermission && process.platform === 'darwin') in the permission flow
needsProbe(hasPermission) == ~hasPermission /\ platform = "darwin"

----------------------------------------------------------------------------
(* ContextHelper.captureAndAnalyzeContext, one action per resumption: a    *)
(* step runs from the completion of an awaited external call to the next   *)
(* external call (awaits of already settled promises do not let another    *)
(* task run in between).                                                   *)

\* Mutation: the early return tests for the wrong platform.
permissionRequiredElsewhere(hasPermission) == ~hasPermission /\ platform = "win32"

\* if (!hasPermission && process.platform === 'darwin')
permissionRequired(hasPermission) == ~hasPermission /\ platform = "darwin"

\* Mutation: the catch block rethrows instead of returning a record.
rethrown(run, step) ==
  [run EXCEPT !.pc = "thrown", !.failure = step, !.target = 0]

\* Mutation: the catch block keeps the path of the capture that succeeded.
caughtKeepingPath(run, step) ==
  [run EXCEPT !.pc = "done", !.failure = step, !.target = 0,
              !.result = [FallbackResult EXCEPT
                            !.screenshot_path = run.screenshotPath]]

\* Mutation: only recognize() is inside the try block; after a failed
\* capture the invocation goes on to initializeOCR.
caughtAfterCapture(run, step) ==
  IF step = "takeScreenshot"
    THEN [run EXCEPT !.pc = "creating", !.failure = step,
                     !.calls = Append(@, "createWorker")]
    ELSE [run EXCEPT !.pc = "done", !.failure = step, !.result = FallbackResult,
                     !.target = 0]

\* catch (error) { ... return fallback }
caught(run, step) ==
  [run EXCEPT !.pc = "done", !.failure = step, !.result = FallbackResult,
              !.target = 0]

\* this.ocrWorker.recognize(screenshotPath) with the worker the field holds
\* now: a null worker raises a TypeError inside the try block.
callRecognize(run, worker) ==
  IF worker = 0 THEN caught(run, "recognize")
  ELSE [run EXCEPT !.pc = "recognizing", !.target = worker,
                   !.recognizedPath = run.screenshotPath,
                   !.calls = Append(@, "recognize")]

\* Engines after a recognize() call on worker has been issued.
recognizeIssued(worker) ==
  IF worker = 0 THEN engines
  ELSE [engines EXCEPT ![worker].recognizing = @ + 1]

\* Mutation: initializeOCR builds an engine whether or not one is stored.
workerAlwaysMissing == TRUE

\* if (!this.ocrWorker) in initializeOCR
workerMissing == ocrWorker = 0

\* Mutation: without permission the invocation waits for the grant instead
\* of returning.
afterPermissionAwaitingGrant(run, hasPermission) ==
  LET known == [run EXCEPT !.hasPermission =
                  IF hasPermission THEN "granted" ELSE "denied"]
  IN IF permissionRequired(hasPermission)
       THEN [known EXCEPT !.pc = "awaitingGrant"]
       ELSE [known EXCEPT !.pc = "capturing",
                          !.calls = Append(@, "takeScreenshot")]

\* Continuation after handlePermissionForContextCapture() returned.
afterPermission(run, hasPermission) ==
  LET known == [run EXCEPT !.hasPermission =
                  IF hasPermission THEN "granted" ELSE "denied"]
  IN IF permissionRequired(hasPermission)
       THEN [known EXCEPT !.pc = "done", !.result = PermissionRequiredResult]
       ELSE [known EXCEPT !.pc = "capturing",
                          !.calls = Append(@, "takeScreenshot")]

\* What is kept of the invocation that resolved before the most recent one:
\* how it ended, the text it recognized and the record it resolved to.
outcomeOf(run) ==
  [IdleRun EXCEPT !.pc = run.pc, !.failure = run.failure,
                  !.hasPermission = run.hasPermission,
                  !.text = run.text, !.result = run.result]

\* Invocation r continues as the record next: it is suspended at its next
\* await, or it has resolved and the caller receives next.result.
resume(r, next) ==
  IF next.pc = "done"
    THEN /\ runs' = [runs EXCEPT ![r] = DoneRun]
         /\ lastReturn' = [run |-> r, ended |-> next,
                            earlier |-> outcomeOf(lastReturn.ended)]
    ELSE /\ runs' = [runs EXCEPT ![r] = next]
         /\ UNCHANGED lastReturn

\* The capture-context handler invokes captureAndAnalyzeContext(): first
\* permission query, then either the probe capture or the real capture.
CaptureContext(r) ==
  /\ runs[r].pc = "idle"
  /\ \A q \in Runs : q < r => runs[q].pc # "idle"
  /\ \E status \in AccessStatuses :
       LET hasPermission == checkScreenCapturePermission(status)
           asked == [runs[r] EXCEPT !.calls = @ \o checkCalls]
       IN resume(r,
            IF needsProbe(hasPermission)
              THEN [asked EXCEPT !.pc = "probing",
                                 !.calls = Append(@, "screenshot-desktop")]
              ELSE afterPermission(asked, hasPermission))
  /\ UNCHANGED <<platform, ocrWorker, engines, cleanups>>
  /\ UNCHANGED <<classifierVars, permissionVars, coachVars>>

\* try { fs.unlinkSync('/tmp/permission-test.png') } catch (e) { }
unlinked(run, unlinkThrows) ==
  [run EXCEPT !.calls = Append(@, "unlinkSync"),
              !.probeFile = IF unlinkThrows THEN "kept" ELSE "deleted"]

\* The probe capture of the permission flow settles: when it threw, the
\* outer catch block returns false; otherwise the file is unlinked (a
\* failure is ignored) and the permission is queried again.
ProbeReturns(r) ==
  /\ runs[r].pc = "probing"
  /\ \E probeThrows, unlinkThrows \in BOOLEAN, status \in AccessStatuses :
       resume(r,
         IF probeThrows
           THEN afterPermission([runs[r] EXCEPT !.probeFile = "abandoned"], FALSE)
           ELSE afterPermission(
                  [unlinked(runs[r], unlinkThrows) EXCEPT !.calls = @ \o checkCalls],
                  checkScreenCapturePermission(status)))
  /\ UNCHANGED <<platform, ocrWorker, engines, cleanups>>
  /\ UNCHANGED <<classifierVars, permissionVars, coachVars>>

\* takeScreenshot settles; on success initializeOCR starts.
CaptureReturns(r) ==
  /\ runs[r].pc = "capturing"
  /\ \E throws \in BOOLEAN :
       IF throws
         THEN /\ resume(r, caught(runs[r], "takeScreenshot"))
              /\ UNCHANGED engines
         ELSE LET captured == [runs[r] EXCEPT !.screenshotPath = screenshotPathOf(r)]
              IN IF workerMissing
                   THEN /\ resume(r, [captured EXCEPT !.pc = "creating",
                                                     !.calls = Append(@, "createWorker")])
                        /\ UNCHANGED engines
                   ELSE /\ resume(r, callRecognize(captured, ocrWorker))
                        /\ engines' = recognizeIssued(ocrWorker)
  /\ UNCHANGED <<platform, ocrWorker, cleanups>>
  /\ UNCHANGED <<classifierVars, permissionVars, coachVars>>

\* createWorker() settles: this.ocrWorker = <new engine>; loadLanguage starts.
CreateReturns(r) ==
  /\ runs[r].pc = "creating"
  /\ \E throws \in BOOLEAN :
       IF throws
         THEN /\ resume(r, caught(runs[r], "createWorker"))
              /\ UNCHANGED <<ocrWorker, engines>>
         ELSE /\ engines' = Append(engines, NewEngine)
              /\ ocrWorker' = Len(engines) + 1
              /\ resume(r, [runs[r] EXCEPT !.pc = "loading",
                                            !.target = Len(engines) + 1,
                                            !.calls = Append(@, "loadLanguage")])
  /\ UNCHANGED <<platform, cleanups>>
  /\ UNCHANGED <<classifierVars, permissionVars, coachVars>>

\* loadLanguage settles; initialize is called on the worker the field holds.
LoadReturns(r) ==
  /\ runs[r].pc = "loading"
  /\ \E throws \in BOOLEAN :
       IF throws
         THEN /\ resume(r, caught(runs[r], "loadLanguage"))
              /\ UNCHANGED engines
         ELSE /\ engines' = [engines EXCEPT ![runs[r].target].loaded = TRUE]
              /\ resume(r,
                   IF ocrWorker = 0
                     THEN caught(runs[r], "initialize")
                     ELSE [runs[r] EXCEPT !.pc = "initializing", !.target = ocrWorker,
                                          !.calls = Append(@, "initialize")])
  /\ UNCHANGED <<platform, ocrWorker, cleanups>>
  /\ UNCHANGED <<classifierVars, permissionVars, coachVars>>

\* initialize settles; initializeOCR returns and recognize is called.
InitializeReturns(r) ==
  /\ runs[r].pc = "initializing"
  /\ \E throws \in BOOLEAN :
       IF throws
         THEN /\ resume(r, caught(runs[r], "initialize"))
              /\ UNCHANGED engines
         ELSE /\ resume(r, callRecognize(runs[r], ocrWorker))
              /\ engines' = [recognizeIssued(ocrWorker)
                               EXCEPT ![runs[r].target].initialized = TRUE]
  /\ UNCHANGED <<platform, ocrWorker, cleanups>>
  /\ UNCHANGED <<classifierVars, permissionVars, coachVars>>

\* recognize settles; the text is classified and the record assembled.
RecognizeReturns(r) ==
  /\ runs[r].pc = "recognizing"
  /\ engines' = [engines EXCEPT ![runs[r].target].recognizing = @ - 1]
  /\ \E throws \in BOOLEAN :
       IF throws
         THEN resume(r, caught(runs[r], "recognize"))
         ELSE \E ocrText \in OcrTexts :
                resume(r, [runs[r] EXCEPT !.pc = "done", !.target = 0,
                             !.text = ocrText,
                             !.result = analyze(ocrText, runs[r].screenshotPath)])
  /\ UNCHANGED <<platform, ocrWorker, cleanups>>
  /\ UNCHANGED <<classifierVars, permissionVars, coachVars>>

----------------------------------------------------------------------------
(* ContextHelper.cleanup.                                                  *)

\* cleanup() is called: terminate() is issued when a worker is stored.
Cleanup(c) ==
  /\ cleanups[c].pc = "idle"
  /\ \A d \in Cleanups : d < c => cleanups[d].pc # "idle"
  /\ IF ocrWorker # 0
       THEN /\ cleanups' = [cleanups EXCEPT ![c] = [pc |-> "terminating", target |-> ocrWorker]]
            /\ engines' = [engines EXCEPT ![ocrWorker].terminateCalls = @ + 1]
       ELSE /\ cleanups' = [cleanups EXCEPT ![c] = [pc |-> "done", target |-> 0]]
            /\ UNCHANGED engines
  /\ UNCHANGED <<platform, ocrWorker, runs, lastReturn>>
  /\ UNCHANGED <<classifierVars, permissionVars, coachVars>>

\* Mutation: cleanup leaves the terminated engine in the field.
workerKept == ocrWorker

\* this.ocrWorker = null
workerCleared == 0

\* terminate() settles; on success this.ocrWorker = null.
TerminateReturns(c) ==
  /\ cleanups[c].pc = "terminating"
  /\ \E throws \in BOOLEAN :
       IF throws
         THEN /\ cleanups' = [cleanups EXCEPT ![c].pc = "rejected"]
              /\ UNCHANGED <<ocrWorker, engines>>
         ELSE /\ cleanups' = [cleanups EXCEPT ![c].pc = "done"]
              /\ engines' = [engines EXCEPT ![cleanups[c].target].terminated = TRUE]
              /\ ocrWorker' = workerCleared
  /\ UNCHANGED <<platform, runs, lastReturn>>
  /\ UNCHANGED <<classifierVars, permissionVars, coachVars>>

----------------------------------------------------------------------------
(* Direct calls of the three classifier functions on one input text.            *)

InitClassifier ==
  /\ inputText \in TextInputs
  /\ returned = {}
  /\ detection = initialBestMatch
  /\ panels = <<>>
  /\ uiElements = <<>>
  /\ platform = "darwin"
  /\ ocrWorker = 0
  /\ engines = <<>>
  /\ runs = [r \in Runs |-> IdleRun]
  /\ lastReturn = NoReturn
  /\ cleanups = [c \in Cleanups |-> IdleCleanup]
  /\ NoPermissionCall
  /\ NoCoachRecording

DetectCreativeSoftware ==
  /\ "detectCreativeSoftware" \notin returned
  /\ detection' = detectCreativeSoftware(inputText)
  /\ returned' = returned \cup {"detectCreativeSoftware"}
  /\ UNCHANGED <<inputText, panels, uiElements>>
  /\ UNCHANGED <<pipelineVars, permissionVars, coachVars>>

ExtractPanels ==
  /\ "extractPanels" \notin returned
  /\ panels' = extractPanels(inputText)
  /\ returned' = returned \cup {"extractPanels"}
  /\ UNCHANGED <<inputText, detection, uiElements>>
  /\ UNCHANGED <<pipelineVars, permissionVars, coachVars>>

ExtractUIElements ==
  /\ "extractUIElements" \notin returned
  /\ uiElements' = extractUIElements(inputText)
  /\ returned' = returned \cup {"extractUIElements"}
  /\ UNCHANGED <<inputText, detection, panels>>
  /\ UNCHANGED <<pipelineVars, permissionVars, coachVars>>

NextClassifier == DetectCreativeSoftware \/ ExtractPanels \/ ExtractUIElements

SpecClassifier == InitClassifier /\ [][NextClassifier]_vars

----------------------------------------------------------------------------
(* Direct calls of PermissionsHelper and the permission IPC handler.       *)

InitPermissions ==
  /\ NoDirectCall
  /\ NoPermissionCall
  /\ InitPipeline
  /\ NoCoachRecording

\* PermissionsHelper.checkScreenCapturePermission() is called.
CheckPermission ==
  /\ Len(permissionLog) < MaxQueries
  /\ \E status \in AccessStatuses :
       permissionLog' = Append(permissionLog,
         [via |-> "checkScreenCapturePermission",
          reported |-> IF checkCalls = <<>> THEN "unasked" ELSE status,
          calls |-> checkCalls,
          answer |-> checkScreenCapturePermission(status)])
  /\ UNCHANGED <<settings, classifierVars, pipelineVars, coachVars>>

\* What appState.checkScreenRecordingPermission() may do.
AppStateOutcomes == {"true", "false", "throws"}

\* try { return await appState.checkScreenRecordingPermission() }
\* catch (error) { return false }
handlerAnswer(outcome) ==
  IF outcome = "throws" THEN FALSE ELSE outcome = "true"

\* The check-screen-recording-permission handler serves a request.
CheckPermissionRequest ==
  /\ Len(permissionLog) < MaxQueries
  /\ \E outcome \in AppStateOutcomes :
       permissionLog' = Append(permissionLog,
         [via |-> "check-screen-recording-permission",
          reported |-> outcome,
          calls |-> <<"checkScreenRecordingPermission">>,
          answer |-> handlerAnswer(outcome)])
  /\ UNCHANGED <<settings, classifierVars, pipelineVars, coachVars>>

\* openScreenRecordingSettings() is called: openExternal(<deep link>).
OpenSettings ==
  /\ settings.pc = "idle"
  /\ settings' = [pc |-> "opening", calls |-> <<"Privacy_ScreenCapture">>]
  /\ UNCHANGED <<permissionLog, classifierVars, pipelineVars, coachVars>>

\* The deep link settles; when rejected, the catch block opens the general
\* security settings.
OpenReturns ==
  /\ settings.pc = "opening"
  /\ \E rejected \in BOOLEAN :
       settings' = IF rejected
                     THEN [pc |-> "openingFallback",
                           calls |-> Append(settings.calls, "security")]
                     ELSE [settings EXCEPT !.pc = "done"]
  /\ UNCHANGED <<permissionLog, classifierVars, pipelineVars, coachVars>>

\* The fallback link settles; it is awaited inside the catch block, outside
\* any try, so its rejection rejects openScreenRecordingSettings().
FallbackReturns ==
  /\ settings.pc = "openingFallback"
  /\ \E rejected \in BOOLEAN :
       settings' = [settings EXCEPT !.pc = IF rejected THEN "rejected" ELSE "done"]
  /\ UNCHANGED <<permissionLog, classifierVars, pipelineVars, coachVars>>

NextPermissions ==
  \/ CheckPermission
  \/ CheckPermissionRequest
  \/ OpenSettings
  \/ OpenReturns
  \/ FallbackReturns

SpecPermissions == InitPermissions /\ [][NextPermissions]_vars

----------------------------------------------------------------------------
(* CreativEase Coach recording of the QueueCommands component              *)
(* (electron/ipcHandlers.ts, l.162 onward).  A state setter takes effect   *)
(* before the next event is handled; a callback reads the state values of  *)
(* the render in which it was created.                                     *)

InitCoach ==
  /\ NoDirectCall
  /\ NoPermissionCall
  /\ InitPipeline
  /\ NoCoachRecording

otherVars == <<classifierVars, pipelineVars, permissionVars>>

\* The first render is committed and its effect runs: useEffect(..., [])
\* registers the shortcut callback once.  The callback calls the
\* startCoachRecording of that render, which reads that render's
\* isCoachRecording; with no dependencies the effect never runs again.
Mount ==
  /\ ~shortcutListener.registered
  /\ shortcutListener' = [registered |-> TRUE,
                          isCoachRecording |-> isCoachRecording]
  /\ UNCHANGED <<isCoachRecording, isProcessingGuidance, coachGuidance,
                 transcribedText, coachRecordings, otherVars>>

\* if (isCoachRecording) return, as the registered callback evaluates it.
guardSeesRecording == shortcutListener.isCoachRecording

\* The shortcut fires: startCoachRecording() runs up to its first await,
\* navigator.mediaDevices.getUserMedia({ audio: true }).
Trigger(k) ==
  /\ shortcutListener.registered
  /\ coachRecordings[k].pc = "idle"
  /\ \A j \in Triggers : j < k => coachRecordings[j].pc # "idle"
  /\ IF guardSeesRecording
       THEN /\ coachRecordings' = [coachRecordings EXCEPT ![k].pc = "ignored"]
            /\ UNCHANGED <<isCoachRecording, coachGuidance, transcribedText>>
       ELSE /\ isCoachRecording' = TRUE
            /\ coachGuidance' = "null"
            /\ transcribedText' = "empty"
            /\ coachRecordings' = [coachRecordings EXCEPT ![k].pc = "acquiring"]
  /\ UNCHANGED <<isProcessingGuidance, shortcutListener, otherVars>>

\* What getUserMedia, new MediaRecorder(stream) and recorder.start() may do.
AcquisitionOutcomes == {"rejected", "recorderThrows", "started"}

\* Mutation: the catch block leaves isCoachRecording as it is.
flagKeptOnFailure == isCoachRecording

\* setIsCoachRecording(false) in the catch block of startCoachRecording
flagOnFailure == FALSE

\* getUserMedia settles.  On success the recorder is created and started
\* and the 5-second timer is set; any failure goes to the catch block.
MicrophoneReturns(k) ==
  /\ coachRecordings[k].pc = "acquiring"
  /\ \E outcome \in AcquisitionOutcomes :
       IF outcome = "started"
         THEN /\ coachRecordings' = [coachRecordings EXCEPT
                   ![k] = [pc |-> "recording", recorder |-> "recording"]]
              /\ UNCHANGED <<isCoachRecording, coachGuidance>>
         ELSE /\ coachRecordings' = [coachRecordings EXCEPT ![k].pc = "failed"]
              /\ isCoachRecording' = flagOnFailure
              /\ coachGuidance' = "microphone-error"
  /\ UNCHANGED <<isProcessingGuidance, transcribedText, shortcutListener, otherVars>>

\* The setTimeout callback runs after 5 seconds:
\* if (recorder.state === 'recording') recorder.stop()
TimerFires(k) ==
  /\ coachRecordings[k].pc = "recording"
  /\ coachRecordings' =
       IF coachRecordings[k].recorder = "recording"
         THEN [coachRecordings EXCEPT
                 ![k] = [pc |-> "stopping", recorder |-> "inactive"]]
         ELSE [coachRecordings EXCEPT ![k].pc = "done"]
  /\ UNCHANGED <<isCoachRecording, isProcessingGuidance, coachGuidance,
                 transcribedText, shortcutListener, otherVars>>

\* recorder.onstop: reader.readAsDataURL(blob); setIsCoachRecording(false)
OnStop(k) ==
  /\ coachRecordings[k].pc = "stopping"
  /\ coachRecordings' = [coachRecordings EXCEPT ![k].pc = "reading"]
  /\ isCoachRecording' = FALSE
  /\ UNCHANGED <<isProcessingGuidance, coachGuidance, transcribedText,
                 shortcutListener, otherVars>>

\* reader.onloadend: analyzeAudioFromBase64 is called.
OnLoadEnd(k) ==
  /\ coachRecordings[k].pc = "reading"
  /\ coachRecordings' = [coachRecordings EXCEPT ![k].pc = "transcribing"]
  /\ UNCHANGED <<isCoachRecording, isProcessingGuidance, coachGuidance,
                 transcribedText, shortcutListener, otherVars>>

\* What analyzeAudioFromBase64 may do: throw, or resolve a blank or a
\* non-blank text.
TranscriptionOutcomes == {"throws", "blank", "text"}

\* The transcription settles; getGuidanceFromText(transcription.text) runs
\* up to its await (it returns at once on a blank text).
TranscriptionReturns(k) ==
  /\ coachRecordings[k].pc = "transcribing"
  /\ \E outcome \in TranscriptionOutcomes :
       CASE outcome = "throws" ->
              /\ transcribedText' = "could-not-transcribe"
              /\ coachGuidance' = "processing-error"
              /\ coachRecordings' = [coachRecordings EXCEPT ![k].pc = "done"]
              /\ UNCHANGED isProcessingGuidance
         [] outcome = "blank" ->
              /\ transcribedText' = "blank"
              /\ coachRecordings' = [coachRecordings EXCEPT ![k].pc = "done"]
              /\ UNCHANGED <<coachGuidance, isProcessingGuidance>>
         [] outcome = "text" ->
              /\ transcribedText' = "text"
              /\ isProcessingGuidance' = TRUE
              /\ coachGuidance' = "null"
              /\ coachRecordings' = [coachRecordings EXCEPT ![k].pc = "guiding"]
  /\ UNCHANGED <<isCoachRecording, shortcutListener, otherVars>>

\* getCreativeGuidanceFromText settles: guidance or the error guidance, and
\* finally setIsProcessingGuidance(false).
GuidanceReturns(k) ==
  /\ coachRecordings[k].pc = "guiding"
  /\ \E throws \in BOOLEAN :
       coachGuidance' = IF throws THEN "processing-error" ELSE "guidance"
  /\ isProcessingGuidance' = FALSE
  /\ coachRecordings' = [coachRecordings EXCEPT ![k].pc = "done"]
  /\ UNCHANGED <<isCoachRecording, transcribedText, shortcutListener, otherVars>>

NextCoach ==
  \/ Mount
  \/ \E k \in Triggers : Trigger(k)
  \/ \E k \in Triggers : MicrophoneReturns(k)
  \/ \E k \in Triggers : TimerFires(k)
  \/ \E k \in Triggers : OnStop(k)
  \/ \E k \in Triggers : OnLoadEnd(k)
  \/ \E k \in Triggers : TranscriptionReturns(k)
  \/ \E k \in Triggers : GuidanceReturns(k)

SpecCoach == InitCoach /\ [][NextCoach]_vars

\* getUserMedia settles, the timer fires, and the stop event of a stopped
\* recorder is delivered.
CoachEventsArrive ==
  \A k \in Triggers :
    /\ WF_vars(MicrophoneReturns(k))
    /\ WF_vars(TimerFires(k))
    /\ WF_vars(OnStop(k))

SpecCoachLive == InitCoach /\ [][NextCoach]_vars /\ CoachEventsArrive

----------------------------------------------------------------------------
Next ==
  \/ \E r \in Runs : CaptureContext(r)
  \/ \E r \in Runs : ProbeReturns(r)
  \/ \E r \in Runs : CaptureReturns(r)
  \/ \E r \in Runs : CreateReturns(r)
  \/ \E r \in Runs : LoadReturns(r)
  \/ \E r \in Runs : InitializeReturns(r)
  \/ \E r \in Runs : RecognizeReturns(r)
  \/ \E c \in Cleanups : Cleanup(c)
  \/ \E c \in Cleanups : TerminateReturns(c)

Spec == Init /\ [][Next]_vars

\* Every external call an invocation awaits eventually returns or throws:
\* the probe capture, the capture, createWorker, loadLanguage, initialize
\* and recognize.  (The permission query is synchronous.)  Nothing is
\* assumed about when requests and cleanup() calls are made, nor about
\* terminate().
ExternalCallsSettle ==
  \A r \in Runs :
    /\ WF_vars(ProbeReturns(r))
    /\ WF_vars(CaptureReturns(r))
    /\ WF_vars(CreateReturns(r))
    /\ WF_vars(LoadReturns(r))
    /\ WF_vars(InitializeReturns(r))
    /\ WF_vars(RecognizeReturns(r))

SpecLive == Init /\ [][Next]_vars /\ ExternalCallsSettle

----------------------------------------------------------------------------
(* The same program when its caller makes one call at a time: a           *)
(* capture-context request or a cleanup() call is made only after the      *)
(* previous call has settled.                                              *)

inFlight(r) == runs[r].pc \notin {"idle", "done"}

terminating(c) == cleanups[c].pc = "terminating"

oneAtATime ==
  Cardinality({r \in Runs : inFlight(r)})
    + Cardinality({c \in Cleanups : terminating(c)}) <= 1

NextSequential == Next /\ oneAtATime'

SpecSequential == Init /\ [][NextSequential]_vars

----------------------------------------------------------------------------
(* Properties of captureAndAnalyzeContext (specification Spec).            *)

\* pcs at which an invocation is suspended at an awaited external call.
SuspendedAt ==
  {"probing", "capturing", "creating", "loading", "initializing", "recognizing"}

SoftwareNames ==
  {softwarePatterns[k].name : k \in 1..Len(softwarePatterns)}
    \cup {"Unknown", "Permission Required"}

\* A well-formed ContextData record.
IsContextData(d) ==
  /\ DOMAIN d = {"software", "confidence", "panels", "text_content",
                 "screenshot_path", "ui_elements"}
  /\ d.software \in SoftwareNames
  /\ d.confidence.num \in Nat /\ d.confidence.den \in Nat \ {0}
  /\ DOMAIN d.panels = 1..Len(d.panels)
  /\ DOMAIN d.ui_elements = 1..Len(d.ui_elements)
  /\ DOMAIN d.text_content = 1..Len(d.text_content)
  /\ DOMAIN d.screenshot_path = 1..Len(d.screenshot_path)

\* Calls of the Screen Capturer and of the OCR engine.
CaptureAndOcrCalls ==
  {"takeScreenshot", "createWorker", "loadLanguage", "initialize", "recognize"}

\* C1: captureAndAnalyzeContext never throws.  Whatever the permission
\* flow, the capture, the engine creation, loading, initialization and
\* recognition do (each may succeed or throw), an invocation is either not
\* started, suspended at one of its awaited calls, or resolved; it is never
\* left with an exception, and what an invocation resolves to is always a
\* well-formed ContextData record.
NeverThrows ==
  /\ \A r \in Runs : runs[r].pc \in {"idle", "done"} \cup SuspendedAt
  /\ lastReturn.run # 0 =>
       /\ lastReturn.ended.pc = "done"
       /\ IsContextData(lastReturn.ended.result)

\* An invocation whose createWorker() call threw has resolved.
NeverThrowsWitness ==
  /\ lastReturn.run # 0
  /\ lastReturn.ended.failure = "createWorker"
  /\ lastReturn.ended.pc = "done"
  /\ runs[lastReturn.run].pc = "done"

\* C2: on darwin, when the permission flow reports that permission is not
\* granted, the invocation returns software "Permission Required",
\* confidence 0, no panels, no ui_elements and an empty screenshot_path, and
\* it has called neither the Screen Capturer nor the OCR engine; no
\* invocation whose permission flow answered "not granted" is ever suspended
\* at a later call.
PermissionDeniedReturnsEarly ==
  /\ \A r \in Runs :
       (platform = "darwin" /\ runs[r].hasPermission = "denied")
         => runs[r].pc \notin SuspendedAt
  /\ (/\ platform = "darwin"
      /\ lastReturn.run # 0
      /\ lastReturn.ended.hasPermission = "denied")
       => /\ lastReturn.ended.result.software = "Permission Required"
          /\ lastReturn.ended.result.confidence = [num |-> 0, den |-> 1]
          /\ lastReturn.ended.result.panels = <<>>
          /\ lastReturn.ended.result.ui_elements = <<>>
          /\ lastReturn.ended.result.screenshot_path = <<>>
          /\ \A i \in 1..Len(lastReturn.ended.calls) :
               lastReturn.ended.calls[i] \notin CaptureAndOcrCalls

\* An invocation on darwin returned after its probe capture failed.
PermissionDeniedWitness ==
  /\ platform = "darwin"
  /\ lastReturn.run # 0
  /\ lastReturn.ended.hasPermission = "denied"
  /\ lastReturn.ended.calls = <<"getMediaAccessStatus", "screenshot-desktop">>
  /\ lastReturn.ended.result.software = "Permission Required"

\* C3: when a step from the capture onward fails in an invocation (the
\* capture, createWorker, loadLanguage, initialize or recognize throws), the
\* record returned is exactly the fallback: software "Unknown", confidence 0,
\* empty panels, ui_elements, text_content and screenshot_path, also when
\* the capture had succeeded before the failure.
FailureReturnsFallback ==
  (lastReturn.run # 0 /\ lastReturn.ended.failure # "none")
    => lastReturn.ended.result =
         [software |-> "Unknown", confidence |-> [num |-> 0, den |-> 1],
          panels |-> <<>>, text_content |-> <<>>, screenshot_path |-> <<>>,
          ui_elements |-> <<>>]

\* recognize() threw in an invocation whose capture had written a file.
FailureAfterCaptureWitness ==
  /\ lastReturn.run # 0
  /\ lastReturn.ended.failure = "recognize"
  /\ lastReturn.ended.screenshotPath # <<>>
  /\ "recognize" \in {lastReturn.ended.calls[i] :
                        i \in 1..Len(lastReturn.ended.calls)}

\* C4: engine initialization is exclusive.  Until the first cleanup() call,
\* the createWorker() calls in flight and the engines already constructed
\* number at most one.
EngineInitializationExclusive ==
  (\A c \in Cleanups : cleanups[c].pc = "idle")
    => Len(engines) + Cardinality({r \in Runs : runs[r].pc = "creating"}) <= 1

\* C5: access to the OCR engine is serialized.  No engine ever has more
\* than one recognize() call in flight.
RecognizeSerialized ==
  \A e \in 1..Len(engines) : engines[e].recognizing <= 1

\* The confidence c is a number of [0, 1].
InUnitInterval(c) ==
  /\ c.den > 0
  /\ 0 <= c.num
  /\ c.num <= c.den

\* Confidence of the classifier on every input text.
classifierConfidences ==
  {detectCreativeSoftware(t).confidence : t \in TextInputs}

\* C8: the confidence lies in [0, 1]: for every input text given to
\* detectCreativeSoftware, and in every ContextData an invocation of
\* captureAndAnalyzeContext resolves to (classified text, permission
\* required, fallback).
ConfidenceInUnitInterval ==
  /\ \A c \in classifierConfidences : InUnitInterval(c)
  /\ lastReturn.run # 0 => InUnitInterval(lastReturn.ended.result.confidence)

\* An invocation resolved with the classification of a text in which two of
\* the five Photoshop keywords occur.
ConfidenceWitness ==
  /\ lastReturn.run # 0
  /\ lastReturn.ended.failure = "none"
  /\ lastReturn.ended.result.software = "Adobe Photoshop"
  /\ lastReturn.ended.result.confidence = [num |-> 2, den |-> 5]

----------------------------------------------------------------------------
(* Properties of the classifier functions (specification SpecClassifier).  *)

\* The lower-cased input text of the direct calls.
lowerInput == toLowerCase(inputText)

\* The keyword is a substring of the lower-cased input text.
occursIn(keyword) ==
  LET lowerText == lowerInput
  IN \E i \in 1..(Len(lowerText) - Len(keyword) + 1) :
       SubSeq(lowerText, i, i + Len(keyword) - 1) = keyword

\* Number of keywords of the k-th signature that occur in the input text;
\* its score is this count over Len(softwarePatterns[k].patterns).
matchedKeywords(k) ==
  Cardinality({j \in 1..Len(softwarePatterns[k].patterns) :
                 occursIn(softwarePatterns[k].patterns[j])})

\* Per signature: its position, its matched keywords, its keywords.
scores ==
  {[signature |-> k, matched |-> matchedKeywords(k),
    total |-> Len(softwarePatterns[k].patterns)] : k \in 1..Len(softwarePatterns)}

\* score a >= score b
scoresAtLeast(a, b) == a.matched * b.total >= b.matched * a.total

\* The first declared signature among those of maximal score.
firstOfMaximalScore ==
  LET all == scores
  IN CHOOSE a \in all :
       /\ \A b \in all : scoresAtLeast(a, b)
       /\ \A b \in all : b.signature < a.signature => ~scoresAtLeast(b, a)

\* C6: detectCreativeSoftware returns the signature whose score (keywords
\* that are substrings of the lower-cased text, over the number of its
\* keywords) is maximal, with that score as confidence; among signatures
\* sharing the maximal non-zero score, the first declared one is returned.
\* (When the maximal score is 0 the confidence is that score, 0.)
DetectsFirstOfMaximalScore ==
  "detectCreativeSoftware" \in returned =>
    LET best == firstOfMaximalScore
    IN /\ detection.confidence.num * best.total
            = best.matched * detection.confidence.den
       /\ best.matched > 0
            => detection.software = softwarePatterns[best.signature].name

\* "timeline" is the only keyword in the text; it scores 1/5 for Adobe
\* Premiere Pro and for Adobe After Effects, and the former is returned.
TimelineTieWitness ==
  /\ "detectCreativeSoftware" \in returned
  /\ inputText = <<"t","i","m","e","l","i","n","e">>
  /\ \E a, b \in scores :
       /\ a.signature < b.signature
       /\ softwarePatterns[a.signature].name = "Adobe Premiere Pro"
       /\ softwarePatterns[b.signature].name = "Adobe After Effects"
       /\ a.matched = 1 /\ b.matched = 1
       /\ scoresAtLeast(a, b) /\ scoresAtLeast(b, a)
       /\ \A c \in scores : scoresAtLeast(a, c)
  /\ detection = [software |-> "Adobe Premiere Pro",
                  confidence |-> [num |-> 1, den |-> 5]]

\* No keyword of any signature occurs in the input text.
noKeywordOccurs ==
  \A k \in 1..Len(softwarePatterns) : matchedKeywords(k) = 0

\* C7: for a text in which no keyword of any signature occurs (the empty
\* text included), detectCreativeSoftware returns software "Unknown" and
\* confidence 0.
NoKeywordIsUnknown ==
  ("detectCreativeSoftware" \in returned /\ noKeywordOccurs)
    => detection = [software |-> "Unknown", confidence |-> [num |-> 0, den |-> 1]]

\* A non-empty text without any signature keyword has been classified,
\* while a panel name does occur in it.
NoKeywordWitness ==
  /\ returned = {"detectCreativeSoftware", "extractPanels", "extractUIElements"}
  /\ inputText # <<>>
  /\ noKeywordOccurs
  /\ panels # <<>>
  /\ detection.software = "Unknown"

\* Position of the first declaration of entry in the catalogue (0 if none).
firstDeclared(entry, catalogue) ==
  IF \E k \in 1..Len(catalogue) : catalogue[k] = entry
    THEN CHOOSE k \in 1..Len(catalogue) :
           /\ catalogue[k] = entry
           /\ \A m \in 1..(k - 1) : catalogue[m] # entry
    ELSE 0

\* list has no entry twice.
noDuplicates(list) ==
  \A i, j \in 1..Len(list) : i # j => list[i] # list[j]

\* The entries of list follow the order of first declaration in catalogue.
inDeclarationOrder(list, catalogue) ==
  \A i, j \in 1..Len(list) :
    i < j => firstDeclared(list[i], catalogue) <= firstDeclared(list[j], catalogue)

\* C9: the panels list and the ui_elements list each hold no entry twice
\* and list their entries in the order of first declaration in their
\* catalogue, although uiPatterns declares "project panel" twice.
ListsUniqueInDeclarationOrder ==
  /\ "extractPanels" \in returned =>
       /\ noDuplicates(panels)
       /\ inDeclarationOrder(panels, panelPatterns)
  /\ "extractUIElements" \in returned =>
       /\ noDuplicates(uiElements)
       /\ inDeclarationOrder(uiElements, uiPatterns)

\* The twice-declared entry occurs in the text and has been extracted,
\* together with an entry declared between its two declarations.
ProjectPanelWitness ==
  /\ "extractUIElements" \in returned
  /\ occursIn(<<"p","r","o","j","e","c","t"," ","p","a","n","e","l">>)
  /\ Cardinality({k \in 1..Len(uiPatterns) :
                    uiPatterns[k] = <<"p","r","o","j","e","c","t"," ","p","a","n","e","l">>}) = 2
  /\ \E i, j \in 1..Len(uiElements) :
       /\ i < j
       /\ uiElements[i] = <<"p","r","o","j","e","c","t"," ","p","a","n","e","l">>
       /\ uiElements[j] = <<"m","i","x","e","r">>

\* The entries of list are exactly the catalogue entries that occur in the
\* input text.
listsOccurring(list, catalogue) ==
  /\ \A k \in 1..Len(catalogue) :
       occursIn(catalogue[k]) <=> \E i \in 1..Len(list) : list[i] = catalogue[k]
  /\ \A i \in 1..Len(list) : firstDeclared(list[i], catalogue) # 0

\* C10: a catalogue entry is in panels (in ui_elements) exactly when it is
\* a substring of the lower-cased text, whatever detectCreativeSoftware and
\* the other extraction returned for the same text; in particular the empty
\* text gives empty panels and empty ui_elements.
ListsExactlyOccurringEntries ==
  /\ "extractPanels" \in returned =>
       /\ listsOccurring(panels, panelPatterns)
       /\ inputText = <<>> => panels = <<>>
  /\ "extractUIElements" \in returned =>
       /\ listsOccurring(uiElements, uiPatterns)
       /\ inputText = <<>> => uiElements = <<>>

\* "mixer", written in capitals partly, is a Logic Pro keyword, a panel and
\* an element: it is counted by the detection and listed in both lists.
MixerWitness ==
  /\ returned = {"detectCreativeSoftware", "extractPanels", "extractUIElements"}
  /\ inputText = <<"I","n","s","p","e","c","t","o","r","m","i","x","e","r">>
  /\ detection.software = "Logic Pro"
  /\ panels = << <<"i","n","s","p","e","c","t","o","r">>, <<"m","i","x","e","r">> >>
  /\ uiElements = << <<"i","n","s","p","e","c","t","o","r">>, <<"m","i","x","e","r">> >>

----------------------------------------------------------------------------
(* Further properties of captureAndAnalyzeContext and of the permission    *)
(* flow (specification Spec).                                              *)

\* The invocation that resolved last ended on the success path: recognize()
\* resolved a text and the record was assembled from it.
endedInSuccess ==
  /\ lastReturn.run # 0
  /\ lastReturn.ended.failure = "none"
  /\ lastReturn.ended.hasPermission = "granted"

\* C11: on the success path text_content is exactly the first 500
\* characters of the text recognize() resolved, in its original case, and
\* the whole text when that has at most 500 characters; the text_content of
\* every record an invocation resolves to has at most 500 characters.
TextContentIsBoundedPrefix ==
  /\ endedInSuccess =>
       LET raw == lastReturn.ended.text
           content == lastReturn.ended.result.text_content
       IN /\ Len(content) = (IF Len(raw) <= 500 THEN Len(raw) ELSE 500)
          /\ \A i \in 1..Len(content) : content[i] = raw[i]
  /\ lastReturn.run # 0 => Len(lastReturn.ended.result.text_content) <= 500

\* A text of more than 500 characters with capital letters among the first
\* 500 was recognized and the record returned.
TruncationWitness ==
  /\ endedInSuccess
  /\ Len(lastReturn.ended.text) > 500
  /\ Len(lastReturn.ended.result.text_content) = 500
  /\ \E i \in 1..500 : lastReturn.ended.result.text_content[i] = "L"

\* No cleanup() call has been made so far.
noCleanupYet == \A c \in Cleanups : cleanups[c].pc = "idle"

\* C12 (specification SpecSequential): initializeOCR is idempotent.  Over a
\* sequence of invocations, one after the other, with no cleanup() call, an
\* engine is constructed at most once, and once an engine is stored no later
\* invocation calls createWorker, loadLanguage or initialize: an invocation
\* is suspended at one of these calls only if no engine was stored before
\* it called createWorker, and then on the engine it constructed itself.
InitializeOcrIdempotent ==
  noCleanupYet =>
    /\ Len(engines) + Cardinality({r \in Runs : runs[r].pc = "creating"}) <= 1
    /\ \A r \in Runs :
         /\ runs[r].pc = "creating" => ocrWorker = 0
         /\ runs[r].pc \in {"loading", "initializing"} =>
              /\ runs[r].target = 1
              /\ \E i \in 1..Len(runs[r].calls) : runs[r].calls[i] = "createWorker"

\* The first invocation has been answered and left an engine; the second
\* one has gone from its capture straight to recognize() on that engine.
SecondCallIsNoOpWitness ==
  /\ noCleanupYet
  /\ runs[1].pc = "done"
  /\ Len(engines) = 1 /\ ocrWorker = 1
  /\ engines[1].initialized
  /\ runs[2].pc = "recognizing" /\ runs[2].target = 1
  /\ \A i \in 1..Len(runs[2].calls) :
       runs[2].calls[i] \notin {"createWorker", "loadLanguage", "initialize"}

\* The calls of one invocation from the capture onward.
callsFromCapture(run) ==
  SelectSeq(run.calls, LAMBDA call : call \in CaptureAndOcrCalls)

\* What a step that calls or completes cleanup() does.
cleanupStep ==
  \A c \in Cleanups :
    /\ (cleanups[c].pc = "idle" /\ cleanups'[c].pc # "idle" /\ ocrWorker = 0)
         => /\ cleanups'[c] = [pc |-> "done", target |-> 0]
            /\ UNCHANGED <<platform, ocrWorker, engines, runs, lastReturn>>
    /\ (cleanups[c].pc = "idle" /\ cleanups'[c].pc # "idle" /\ ocrWorker # 0)
         => /\ cleanups'[c] = [pc |-> "terminating", target |-> ocrWorker]
            /\ engines'[ocrWorker].terminateCalls
                 = engines[ocrWorker].terminateCalls + 1
    /\ (cleanups[c].pc = "terminating" /\ cleanups'[c].pc = "done")
         => /\ ocrWorker' = 0
            /\ engines'[cleanups[c].target].terminated

\* An invocation whose capture completes while no engine is stored goes on
\* to createWorker().
buildsWhenNoEngine ==
  \A r \in Runs :
    (/\ runs[r].pc = "capturing" /\ runs'[r].pc # "capturing"
     /\ ocrWorker = 0
     /\ ~(lastReturn'.run = r /\ lastReturn'.ended.failure = "takeScreenshot"
          /\ lastReturn' # lastReturn))
      => runs'[r].pc = "creating"

\* No terminated engine is stored or used, and an invocation that is at
\* recognize() after having found no engine has built, loaded and
\* initialized the engine it uses.
freshEngineAfterCleanup ==
  /\ \A e \in 1..Len(engines) : engines[e].terminated => ocrWorker # e
  /\ \A r \in Runs :
       runs[r].pc = "recognizing" =>
         /\ ~engines[runs[r].target].terminated
         /\ (\E i \in 1..Len(runs[r].calls) : runs[r].calls[i] = "createWorker")
              => /\ callsFromCapture(runs[r])
                      = <<"takeScreenshot", "createWorker", "loadLanguage",
                          "initialize", "recognize">>
                 /\ engines[runs[r].target].loaded
                 /\ engines[runs[r].target].initialized
                 /\ engines[runs[r].target].terminateCalls = 0

NoEngineLeaked ==
  (/\ \A r \in Runs : ~inFlight(r)
   /\ \A c \in Cleanups : ~terminating(c))
    => \A e \in 1..Len(engines) : engines[e].terminated \/ ocrWorker = e

\* The calls one invocation made inside handlePermissionForContextCapture.
permissionFlowCalls(run) ==
  SelectSeq(run.calls, LAMBDA call : call \notin CaptureAndOcrCalls)

\* The permission flow of the invocation has returned as the claim says.
flowAsStated(run) ==
  LET flow == permissionFlowCalls(run)
  IN IF platform # "darwin" THEN flow = <<>> /\ run.hasPermission = "granted"
     ELSE \/ flow = <<"getMediaAccessStatus">> /\ run.hasPermission = "granted"
          \/ /\ Len(flow) >= 3
             /\ flow[1] = "getMediaAccessStatus"
             /\ flow[2] = "screenshot-desktop"
             /\ flow[Len(flow)] = "getMediaAccessStatus"
             /\ \A i \in 3..Len(flow) : flow[i] # "screenshot-desktop"

\* C16: handlePermissionForContextCapture returns true at once, without a
\* throwaway capture, when permission is already granted; otherwise, on
\* darwin, it attempts exactly one throwaway capture, then queries the
\* permission state again and returns the answer of that second query.
PermissionFlowRequeries ==
  /\ \A r \in Runs : runs[r].hasPermission # "unset" => flowAsStated(runs[r])
  /\ lastReturn.run # 0 => flowAsStated(lastReturn.ended)

\* The invocation, once started, has behaved as on a platform without a
\* consent model: permission taken as granted, no probe capture, and the
\* Screen Capturer called first.
proceedsToCapture(run) ==
  /\ run.pc # "probing"
  /\ run.hasPermission = "granted"
  /\ run.result.software # "Permission Required"
  /\ run.calls # <<>>
  /\ run.calls[1] = "takeScreenshot"
  /\ \A i \in 1..Len(run.calls) : run.calls[i] # "screenshot-desktop"

\* C18: when process.platform is not 'darwin', no invocation returns
\* software "Permission Required", no throwaway probe capture is made, and
\* every invocation goes on to the Screen Capturer.
NoConsentPlatformProceeds ==
  platform # "darwin" =>
    /\ \A r \in Runs : inFlight(r) => proceedsToCapture(runs[r])
    /\ lastReturn.run # 0 => proceedsToCapture(lastReturn.ended)

\* On win32 an invocation has returned the classification of a capture.
NoConsentPlatformWitness ==
  /\ platform = "win32"
  /\ endedInSuccess
  /\ lastReturn.ended.calls[1] = "takeScreenshot"
  /\ lastReturn.ended.result.screenshot_path # <<>>

----------------------------------------------------------------------------
(* Properties of PermissionsHelper (specification SpecPermissions).        *)

\* C15: the permission query is fail-closed.  checkScreenCapturePermission
\* answers true on every platform other than darwin without querying the
\* platform; on darwin it answers true exactly when the platform reports
\* 'granted', and false, without throwing, when the query fails; the
\* check-screen-recording-permission handler answers false when the call it
\* makes throws, and otherwise what that call returned.
PermissionQueryFailClosed ==
  \A i \in 1..Len(permissionLog) :
    LET query == permissionLog[i]
    IN /\ query.answer \in BOOLEAN
       /\ query.via = "checkScreenCapturePermission" =>
            IF platform # "darwin"
              THEN query.answer = TRUE /\ query.calls = <<>>
              ELSE /\ query.calls = <<"getMediaAccessStatus">>
                   /\ query.answer = (query.reported = "granted")
                   /\ query.reported = "throws" => query.answer = FALSE
       /\ query.via = "check-screen-recording-permission" =>
            /\ query.reported = "throws" => query.answer = FALSE
            /\ query.reported # "throws" => query.answer = (query.reported = "true")

\* On darwin a query that failed was answered false, and a request to the
\* handler whose call threw was answered false.
FailedQueryWitness ==
  /\ platform = "darwin"
  /\ \E i, j \in 1..Len(permissionLog) :
       /\ permissionLog[i].via = "checkScreenCapturePermission"
       /\ permissionLog[i].reported = "throws"
       /\ permissionLog[i].answer = FALSE
       /\ permissionLog[j].via = "check-screen-recording-permission"
       /\ permissionLog[j].reported = "throws"
       /\ permissionLog[j].answer = FALSE

\* C17: openScreenRecordingSettings never passes a failure on to its
\* caller: whether the deep link, the fallback link or both are rejected,
\* the call completes without throwing.
OpenSettingsNeverThrows == settings.pc # "rejected"

----------------------------------------------------------------------------
(* Further properties of the classifier functions (specification           *)
(* SpecClassifier).                                                        *)

\* The five keywords the scenario lists for Adobe Premiere Pro.
premiereScenarioKeywords ==
  { <<"p","r","e","m","i","e","r","e">>,
    <<"t","i","m","e","l","i","n","e">>,
    <<"l","u","m","e","t","r","i"," ","c","o","l","o","r">>,
    <<"e","s","s","e","n","t","i","a","l"," ","g","r","a","p","h","i","c","s">>,
    <<"s","e","q","u","e","n","c","e">> }

\* C19: a text that contains "premiere", "timeline", "lumetri color",
\* "essential graphics" and "sequence" is classified as Adobe Premiere Pro
\* with confidence 1, whatever other catalogue keywords it contains.
AllPremiereKeywordsGiveCertainty ==
  ("detectCreativeSoftware" \in returned
     /\ \A keyword \in premiereScenarioKeywords : occursIn(keyword))
    => detection = [software |-> "Adobe Premiere Pro",
                    confidence |-> [num |-> 1, den |-> 1]]

\* The text holds the five keywords and also every keyword of Adobe After
\* Effects, which therefore scores 1 as well.
PremiereWithRivalWitness ==
  /\ "detectCreativeSoftware" \in returned
  /\ \A keyword \in premiereScenarioKeywords : occursIn(keyword)
  /\ \E s \in scores :
       /\ softwarePatterns[s.signature].name = "Adobe After Effects"
       /\ s.matched = s.total
  /\ detection.software = "Adobe Premiere Pro"

\* The letters A-Z of the text replaced by a-z and the other way round.
caseSwapped(text) ==
  [i \in 1..Len(text) |->
     IF \E k \in 1..Len(UpperCase) : UpperCase[k] = text[i]
       THEN LowerCase[CHOOSE k \in 1..Len(UpperCase) : UpperCase[k] = text[i]]
     ELSE IF \E k \in 1..Len(LowerCase) : LowerCase[k] = text[i]
       THEN UpperCase[CHOOSE k \in 1..Len(LowerCase) : LowerCase[k] = text[i]]
     ELSE text[i]]

\* The letters a-z of the text replaced by A-Z.
capitalized(text) ==
  [i \in 1..Len(text) |->
     IF \E k \in 1..Len(LowerCase) : LowerCase[k] = text[i]
       THEN UpperCase[CHOOSE k \in 1..Len(LowerCase) : LowerCase[k] = text[i]]
       ELSE text[i]]

\* String.prototype.toUpperCase on the characters of the model: a-z become
\* A-Z and the dotless i becomes I.
toUpperCase(text) ==
  [i \in 1..Len(text) |->
     IF text[i] = DotlessI THEN "I" ELSE capitalized(<<text[i]>>)[1]]

\* The three classifier functions return for the text other what they have
\* returned for the input text.
classifiedAlike(other) ==
  /\ detectCreativeSoftware(other) = detection
  /\ extractPanels(other) = panels
  /\ extractUIElements(other) = uiElements

allReturned ==
  returned = {"detectCreativeSoftware", "extractPanels", "extractUIElements"}

\* C20, as stated: classification is case-insensitive; the text and its
\* re-casing to all upper case yield the same software, confidence, panels
\* and ui_elements.
UpperCasedClassifiedAlike ==
  allReturned => classifiedAlike(toUpperCase(inputText))

\* C20, amended: for a re-casing that changes only letters A-Z and a-z
\* (all of them to upper case, or each to its opposite case), the text and
\* its re-casing yield the same software, confidence, panels and
\* ui_elements.
AsciiRecasingClassifiedAlike ==
  allReturned =>
    /\ classifiedAlike(capitalized(inputText))
    /\ classifiedAlike(caseSwapped(inputText))

\* A mixed-case text with keywords has been classified, and it differs from
\* both of its re-casings.
RecasingWitness ==
  /\ allReturned
  /\ inputText = <<"I","n","s","p","e","c","t","o","r","m","i","x","e","r">>
  /\ capitalized(inputText) # inputText
  /\ caseSwapped(inputText) # inputText
  /\ caseSwapped(inputText) # capitalized(inputText)
  /\ detection.software = "Logic Pro"
  /\ panels # <<>>

----------------------------------------------------------------------------
(* Properties of whole invocations and of the engine life cycle            *)
(* (specification Spec).                                                   *)

\* The invocation ended on the success path.
succeeded(run) ==
  /\ run.pc = "done"
  /\ run.failure = "none"
  /\ run.hasPermission = "granted"

\* (software, confidence, panels, ui_elements) of a record.
classificationOf(d) == <<d.software, d.confidence, d.panels, d.ui_elements>>

isPrefix(s, t) == Len(s) <= Len(t) /\ s = SubSeq(t, 1, Len(s))

\* The call an invocation is suspended at, by position.
awaitedCall ==
  [probing |-> "screenshot-desktop", capturing |-> "takeScreenshot",
   creating |-> "createWorker", loading |-> "loadLanguage",
   initializing |-> "initialize", recognizing |-> "recognize"]

\* The calls of the invocation follow the order of the pipeline: the
\* permission flow first, then the capture, then either the three calls
\* that make the engine ready or none of them, then recognize.
callsInPipelineOrder(run) ==
  /\ run.calls = permissionFlowCalls(run) \o callsFromCapture(run)
  /\ \/ isPrefix(callsFromCapture(run),
                 <<"takeScreenshot", "createWorker", "loadLanguage",
                   "initialize", "recognize">>)
     \/ isPrefix(callsFromCapture(run), <<"takeScreenshot", "recognize">>)
  /\ callsFromCapture(run) # <<>> =>
       /\ run.hasPermission # "unset"
       /\ platform = "darwin" => run.hasPermission = "granted"

\* Each step of the invocation started only after the previous one had
\* completed without failure.
stepsFollowSuccess(r, run) ==
  /\ run.pc \in SuspendedAt =>
       /\ run.calls # <<>>
       /\ run.calls[Len(run.calls)] = awaitedCall[run.pc]
       /\ run.failure = "none"
  /\ run.failure = "takeScreenshot" =>
       callsFromCapture(run) = <<"takeScreenshot">>
  /\ run.failure # "none" =>
       /\ run.pc = "done"
       /\ run.text = <<>>
       /\ run.result.software = "Unknown"
  /\ run.recognizedPath # <<>> =>
       /\ run.recognizedPath = screenshotPathOf(r)
       /\ run.recognizedPath = run.screenshotPath
  /\ \A i \in 1..Len(run.calls) :
       run.calls[i] = "recognize" =>
         /\ i = Len(run.calls)
         /\ run.recognizedPath # <<>>
  /\ succeeded(run) =>
       /\ run.calls[Len(run.calls)] = "recognize"
       /\ run.result.screenshot_path = run.recognizedPath

\* C22: within one invocation the calls are made in the order permission
\* flow, capture, engine ready (createWorker, loadLanguage, initialize, or
\* none when an engine is stored), recognize, and the record is assembled
\* after recognize() has resolved; each call is made only after the
\* previous one completed without failure; no engine is constructed in an
\* invocation whose capture failed; recognize() is called at most once per
\* invocation, on the path its own capture returned.
StepsInPipelineOrder ==
  /\ \A r \in Runs :
       inFlight(r) =>
         callsInPipelineOrder(runs[r]) /\ stepsFollowSuccess(r, runs[r])
  /\ lastReturn.run # 0 =>
       /\ callsInPipelineOrder(lastReturn.ended)
       /\ stepsFollowSuccess(lastReturn.run, lastReturn.ended)

\* On darwin the second invocation resolved on the success path after the
\* probe, the capture and the construction of an engine, while the first
\* invocation had failed at its capture and constructed nothing.
FullOrderWitness ==
  /\ lastReturn.run = 2
  /\ succeeded(lastReturn.ended)
  /\ lastReturn.ended.calls =
       <<"getMediaAccessStatus", "screenshot-desktop", "unlinkSync",
         "getMediaAccessStatus", "takeScreenshot", "createWorker",
         "loadLanguage", "initialize", "recognize">>
  /\ lastReturn.ended.recognizedPath = screenshotPathOf(2)
  /\ lastReturn.earlier.failure = "takeScreenshot"
  /\ Len(engines) = 1

\* C23 (specification SpecLive, every awaited external call eventually
\* returns or throws): every invocation of captureAndAnalyzeContext that has
\* been made eventually resolves, whatever other invocations and cleanup()
\* calls interleave with it.
EveryRunReturns ==
  \A r \in Runs : (runs[r].pc # "idle") ~> (runs[r].pc = "done")

\* Both invocations have resolved, the first one after the second, and a
\* cleanup() call terminated the engine while they were under way.
InterleavedRunsReturnedWitness ==
  /\ \A r \in Runs : runs[r].pc = "done"
  /\ lastReturn.run = 1
  /\ succeeded(lastReturn.ended)
  /\ \E c \in Cleanups : cleanups[c].pc = "done" /\ cleanups[c].target # 0
  /\ \E e \in 1..Len(engines) : engines[e].terminated

\* The permission flow of the invocation, once it has made the probe
\* capture, has called unlinkSync on the probe file before returning.
deletionAttempted(run) ==
  (\E i \in 1..Len(run.calls) : run.calls[i] = "screenshot-desktop")
    => /\ \E i \in 1..Len(run.calls) : run.calls[i] = "unlinkSync"
       /\ run.probeFile \in {"deleted", "kept"}

\* C24: every throwaway probe capture is followed by an attempt to delete
\* the probe image file before the permission flow returns, whether the
\* probe capture succeeded or threw.
ProbeFileDeletionAttempted ==
  /\ \A r \in Runs :
       runs[r].hasPermission # "unset" => deletionAttempted(runs[r])
  /\ lastReturn.run # 0 => deletionAttempted(lastReturn.ended)

\* A failure of the deletion is ignored: the flow has gone on to the second
\* query and the invocation to its capture, although unlinkSync threw.
DeletionFailureIgnoredWitness ==
  /\ lastReturn.run # 0
  /\ lastReturn.ended.probeFile = "kept"
  /\ succeeded(lastReturn.ended)

\* C25: recognize() is only ever invoked on an engine whose loadLanguage and
\* initialize calls have both completed successfully, also after an
\* invocation whose loadLanguage or initialize threw when the engine was
\* already stored, and for an invocation that reaches initializeOCR while
\* another one is still initializing the engine.
RecognizeOnReadyEngine ==
  \A r \in Runs :
    runs[r].pc = "recognizing" =>
      /\ engines[runs[r].target].loaded
      /\ engines[runs[r].target].initialized

\* The step issues recognize() in invocation r.
issuesRecognize(r) ==
  runs[r].pc # "recognizing" /\ runs'[r].pc = "recognizing"

\* C26: when cleanup() interleaves with invocations, recognize() is never
\* invoked on an engine on which terminate() has been called (pending or
\* completed); in particular an invocation that reaches recognize() while
\* terminate() is pending does not use the terminating engine.
NoRecognizeOnTerminatingEngine ==
  [][\A r \in Runs :
       issuesRecognize(r) => engines[runs'[r].target].terminateCalls = 0]_vars

\* At most one terminate() call has been made on every engine.
terminatedAtMostOnce ==
  \A e \in 1..Len(engines) : engines[e].terminateCalls <= 1

\* A cleanup() call that ended with a failed terminate() has left no
\* reference to the engine in ocrWorker.
releasedAfterFailedTerminate ==
  \A c \in Cleanups :
    cleanups[c].pc = "rejected" => ocrWorker # cleanups[c].target

\* C27: terminate() is invoked at most once on any engine, also when two
\* cleanup() calls overlap; and once a cleanup() call has ended with a
\* failed terminate(), the field ocrWorker is cleared, so that the next
\* invocation does not reuse the dead engine.
TerminatedOnceAndReleased ==
  terminatedAtMostOnce /\ releasedAfterFailedTerminate

----------------------------------------------------------------------------
(* Properties of the CreativEase Coach recording (specifications SpecCoach *)
(* and SpecCoachLive).                                                     *)

\* The startCoachRecording() calls whose recorder is recording.
activeRecorders == {k \in Triggers : coachRecordings[k].recorder = "recording"}

\* The calls under way between the guard and the end of the recording.
recordingsInProgress ==
  {k \in Triggers : coachRecordings[k].pc \in {"acquiring", "recording"}}

\* C28: at most one coach recording is active at a time: a shortcut trigger
\* that arrives while a coach recording is in progress starts no second
\* recorder.
OneCoachRecordingAtATime ==
  /\ Cardinality(activeRecorders) <= 1
  /\ Cardinality(recordingsInProgress) <= 1

\* C29 (specification SpecCoachLive): every coach recording that starts
\* eventually ends: a recorder that is recording is eventually stopped (by
\* the timer), every startCoachRecording() call that passed the guard
\* eventually leaves the recording phase, and whenever isCoachRecording is
\* true it eventually is false again, on every path.
EveryCoachRecordingEnds ==
  /\ \A k \in Triggers :
       (coachRecordings[k].recorder = "recording")
         ~> (coachRecordings[k].recorder = "inactive")
  /\ \A k \in Triggers :
       (coachRecordings[k].pc \in {"acquiring", "recording", "stopping"})
         ~> (coachRecordings[k].pc \in {"failed", "reading", "transcribing",
                                        "guiding", "done"}
             /\ ~isCoachRecording)
  /\ isCoachRecording ~> ~isCoachRecording

\* One recording has failed at the microphone, one has been stopped by the
\* timer and its transcription failed, and isCoachRecording is false.
CoachRecordingsEndedWitness ==
  /\ ~isCoachRecording
  /\ \E j, k \in Triggers :
       /\ coachRecordings[j].pc = "failed"
       /\ coachRecordings[k].pc = "done"
       /\ coachRecordings[k].recorder = "inactive"
  /\ transcribedText = "could-not-transcribe"

====
